---- MODULE Spec2Model ----
(***************************************************************************)
(* CBAM calculator and documentation assistant (streamlit_Chatapp.v2.py,   *)
(* with the cost function of streamlit_Chatapp.py beside it).              *)
(*                                                                         *)
(* Units.  Time is counted in whole time units.  Prices are euro cents     *)
(* (78.54 is 7854).  Emission factors are tenths of a tCO2e per tonne      *)
(* (2.3 is 23).  A text is a sequence of whitespace-separated tokens, the  *)
(* empty text being the empty sequence.  An optional value is a sequence   *)
(* of length at most one: None is <<>>, a present value x is <<x>>.        *)
(***************************************************************************)
EXTENDS Integers, Sequences, FiniteSets, TLC

VARIABLES
    messages,                 \* st.session_state.messages
    last_request_time,        \* st.session_state.last_request_time
    carbon_price,             \* st.session_state.carbon_price
    selected_historic_date,   \* st.session_state.selected_historic_date
    manual_override_price,    \* st.session_state.manual_override_price
    clock,                    \* time.time()
    pc,                       \* position of the running script
    turn,                     \* locals of main() and llm_complete() in a turn
    ui,                       \* what the current script run has shown and called
    calls,                    \* history of llm_complete calls (request times)
    cc                        \* one application of calculate_cbam_cost

vars == <<messages, last_request_time, carbon_price, selected_historic_date,
          manual_override_price, clock, pc, turn, ui, calls, cc>>

-----------------------------------------------------------------------------
\* Bounds of the model.

\* time.time() when the session starts
StartTime == 3
\* no new turn starts and no idle time passes after this time
MaxTime == 5
\* longest extra delay of one sleep or one external call
MaxLag == 1
\* longest conversation
MaxMsgs == 2
\* longest conversation when only questions are asked
MaxHistMsgs == 8
\* largest number handed to calculate_cbam_cost in the function check
MaxArg == 2

-----------------------------------------------------------------------------
\* Configuration.

HISTORY_LENGTH == 5
DEFAULT_CARBON_PRICE == 7854
MIN_REQUEST_INTERVAL == 2
RETRY_DELAY == 5
\* llm_complete(model, prompt, retries = 2)
DefaultRetries == 2
\* st.number_input(min_value = 0.0, max_value = 500.0)
MinPriceInput == 0
MaxPriceInput == 50000

RECENT_PRICES ==
    [d \in {"2025-10-31", "2025-10-01", "2025-09-15", "2025-09-01"} |->
        CASE d = "2025-10-31" -> 7854
          [] d = "2025-10-01" -> 7630
          [] d = "2025-09-15" -> 7480
          [] d = "2025-09-01" -> 7320]

DEFAULT_EMISSIONS ==
    [p \in {"steel", "aluminum", "cement", "fertilizer", "electricity",
            "glass", "ceramics", "hydrogen"} |->
        CASE p = "steel" -> 23
          [] p = "aluminum" -> 86
          [] p = "cement" -> 9
          [] p = "fertilizer" -> 15
          [] p = "electricity" -> 4
          [] p = "glass" -> 8
          [] p = "ceramics" -> 7
          [] p = "hydrogen" -> 100]

-----------------------------------------------------------------------------
\* Python values.

None == <<>>
Some(x) == <<x>>

\* bool(x) of an optional number: None and 0 are false
TruthyNum(o) == o # None /\ o[1] # 0
\* bool(x) of an optional text: None and "" are false
TruthyText(o) == o # None /\ Len(o[1]) > 0

Max(a, b) == IF a >= b THEN a ELSE b

-----------------------------------------------------------------------------
\* Texts.  A token is a run of non-blank characters.  For each token the
\* tables below give what the regular expressions of extract_cbam_request
\* find in it.

Numerals == {"0", "5", "10", "20", "50", "100"}

\* int(s) of a digit string
IntOf(s) ==
    CASE s = "0" -> 0
      [] s = "000" -> 0
      [] s = "1" -> 1
      [] s = "2" -> 2
      [] s = "5" -> 5
      [] s = "10" -> 10
      [] s = "20" -> 20
      [] s = "50" -> 50
      [] s = "100" -> 100
      [] s = "1000" -> 1000

\* str.replace(",", "")
StripCommas(s) == IF s = "1,000" THEN "1000" ELSE s

\* float(s) in tenths; cents are ten times that
TenthsOf(s) == 10 * IntOf(s)
CentsOf(s) == 100 * IntOf(s)

\* str.lower()
Lower(s) ==
    CASE s = "Steel" -> "steel"
      [] s = "Tons" -> "tons"
      [] s = "Of" -> "of"
      [] OTHER -> s

\* (\d+(?:,\d{3})*) ending where the token ends
QtySuffix(tok) ==
    CASE tok \in Numerals -> Some(tok)
      [] tok = "1,000" -> Some("1,000")
      [] tok = "€20" -> Some("20")
      [] OTHER -> None

\* (\d+(?:\.\d+)?) ending where the token ends
DecSuffix(tok) ==
    CASE tok \in Numerals -> Some(tok)
      [] tok = "1,000" -> Some("000")
      [] tok = "€20" -> Some("20")
      [] OTHER -> None

\* the first (\d+(?:\.\d+)?) in the token
FirstDec(tok) ==
    CASE tok \in Numerals -> Some(tok)
      [] tok = "1,000" -> Some("1")
      [] tok = "€20" -> Some("20")
      [] tok \in {"tCO2e", "tCO2"} -> Some("2")
      [] OTHER -> None

\* (\w+) starting where the token starts
WordPrefix(tok) ==
    CASE tok = "€20" -> None
      [] tok = "1,000" -> Some("1")
      [] OTHER -> Some(tok)

\* tons? as a whole token, re.IGNORECASE
IsTons(tok) == Lower(tok) \in {"ton", "tons"}
\* tCO2e?(?:/ton)? starting where the token starts
IsEmUnit(tok) == tok \in {"tCO2e", "tCO2"}
\* (?:origin|paid|cost) in the token
IsOriginWord(tok) == Lower(tok) \in {"origin", "paid", "cost"}

Min(S) == CHOOSE x \in S : \A y \in S : x <= y

\* the product word of qty_pat matched at token i: \s+(?:of\s+)?(\w+)
ProductAt(text, i) ==
    IF /\ i + 3 <= Len(text)
       /\ Lower(text[i + 2]) = "of"
       /\ WordPrefix(text[i + 3]) # None
    THEN WordPrefix(text[i + 3])
    ELSE IF i + 2 <= Len(text) THEN WordPrefix(text[i + 2]) ELSE None

\* qty_pat matches with its number in token i
QtyMatchAt(text, i) ==
    /\ QtySuffix(text[i]) # None
    /\ i + 1 <= Len(text)
    /\ IsTons(text[i + 1])
    /\ ProductAt(text, i) # None

\* em_pat matches with its number in token i
EmMatchAt(text, i) ==
    /\ DecSuffix(text[i]) # None
    /\ i + 1 <= Len(text)
    /\ IsEmUnit(text[i + 1])

\* origin_pat matches with its key word in token i
OriginMatchAt(text, i) ==
    /\ IsOriginWord(text[i])
    /\ \E j \in (i + 1)..Len(text) : FirstDec(text[j]) # None

extract_cbam_request(text) ==
    LET qm == {i \in 1..Len(text) : QtyMatchAt(text, i)}
        em == {i \in 1..Len(text) : EmMatchAt(text, i)}
        om == {i \in 1..Len(text) : OriginMatchAt(text, i)}
        oj == Min({j \in (Min(om) + 1)..Len(text) : FirstDec(text[j]) # None})
    IN  [product |-> IF qm = {} THEN None
                     ELSE Some(Lower(ProductAt(text, Min(qm))[1])),
         quantity |-> IF qm = {} THEN None
                      ELSE Some(IntOf(StripCommas(QtySuffix(text[Min(qm)])[1]))),
         emissions |-> IF em = {} THEN None
                       ELSE Some(TenthsOf(DecSuffix(text[Min(em)])[1])),
         origin_price |-> IF om = {} THEN 0
                          ELSE CentsOf(FirstDec(text[oj])[1])]

\* The questions a user asks.
Questions ==
    { <<"100", "tons", "of", "Steel">>,
      <<"0", "tons", "of", "steel">>,
      <<"10", "tons", "of", "widget">>,
      <<"1,000", "tons", "widget", "5", "tCO2e">>,
      <<"what", "is", "cbam">>,
      <<"50", "tons", "of", "aluminum", "origin", "paid", "€20">>,
      <<"5", "tCO2e", "per", "ton">> }

-----------------------------------------------------------------------------
\* Cost.

\* the first variant: if eu_carbon_price is None: eu_carbon_price = session price
calculate_cbam_cost_v1(embedded_emissions, origin_price, eu_price, session_price) ==
    LET eu == IF eu_price = None THEN session_price ELSE eu_price[1]
    IN  Max(0, embedded_emissions * (eu - origin_price))

\* eu_price = eu_price or st.session_state.carbon_price
calculate_cbam_cost(embedded_emissions, origin_price, eu_price, session_price) ==
    LET eu == IF TruthyNum(eu_price) THEN eu_price[1] ELSE session_price
    IN  Max(0, embedded_emissions * (eu - origin_price))

-----------------------------------------------------------------------------
\* The fast path of main().

\* str.title() of a product word
Title(s) ==
    CASE s = "steel" -> "Steel"
      [] s = "aluminum" -> "Aluminum"
      [] s = "widget" -> "Widget"
      [] OTHER -> s

\* DEFAULT_EMISSIONS.get(prod)
DictGet(d, k) == IF k \in DOMAIN d THEN Some(d[k]) ELSE None

\* if prod and qty:
HasProductAndQuantity(req) ==
    /\ req.product # None /\ req.product[1] # ""
    /\ TruthyNum(req.quantity)

\* if em is None: em = DEFAULT_EMISSIONS.get(prod)
EmissionFor(req) ==
    IF req.emissions = None
    THEN DictGet(DEFAULT_EMISSIONS, req.product[1])
    ELSE req.emissions

\* main() answers with a calculation and returns
TakesFastPath(req) ==
    /\ HasProductAndQuantity(req)
    /\ EmissionFor(req) # None

\* the calculation answer: the numbers of the f-string, in the model's units
CalcResponse(req, price) ==
    LET em == EmissionFor(req)[1]
        qty == req.quantity[1]
        total_em == em * qty
        cost == calculate_cbam_cost(total_em, req.origin_price, None, price)
    IN  <<"**CBAM Cost Calculation**", Title(req.product[1]), ToString(qty),
          ToString(em), ToString(total_em), ToString(price),
          ToString(req.origin_price), ToString(cost)>>

-----------------------------------------------------------------------------
\* The slow path: history, retrieval, prompt.

Message(role, content) == [role |-> role, content |-> content]

\* faulty get_recent_history: messages[start:], the newest message included
get_recent_history_IncludesNewest(msgs) ==
    LET start == Max(0, Len(msgs) - HISTORY_LENGTH)
    IN  SubSeq(msgs, start + 1, Len(msgs))

\* messages[start:-1]
get_recent_history(msgs) ==
    LET start == Max(0, Len(msgs) - HISTORY_LENGTH)
    IN  SubSeq(msgs, start + 1, Len(msgs) - 1)

\* one line "{role}: {content}" per message of history[-3:]
format_history(history) ==
    LET last3 == SubSeq(history, Max(1, Len(history) - 2), Len(history))
    IN  [i \in 1..Len(last3) |-> <<last3[i].role, ":">> \o last3[i].content]

\* what the search service does with one query
SearchOutcomes == {"raises", "no results", "results"}

\* faulty cortex_search: a failed search is reported as a search without results
cortex_search_NoSentinel(outcome) ==
    CASE outcome = "raises" -> <<<<>>, "No source">>
      [] outcome = "no results" -> <<<<>>, "No source">>
      [] outcome = "results" -> <<<<"docs">>, "cbam_guide.pdf">>

\* cortex_search: (context, source)
cortex_search(outcome) ==
    CASE outcome = "raises" -> <<<<>>, "Error">>
      [] outcome = "no results" -> <<<<>>, "No source">>
      [] outcome = "results" -> <<<<"docs">>, "cbam_guide.pdf">>

\* build_prompt: (prompt, src)
build_prompt(user_question, msgs, price, outcome) ==
    LET hist_str == format_history(get_recent_history(msgs))
        found == cortex_search(outcome)
    IN  <<[context |-> found[1], price |-> price, chat_history |-> hist_str,
           question |-> user_question], found[2]>>

\* what complete(model, prompt) returns when it does not raise
Responses == {<<>>, <<"answer">>}

-----------------------------------------------------------------------------
\* State.

\* what one interaction (a script run and the rerun it asks for) shows and calls
NewRun(event, input) ==
    [event |-> event,        \* the widget that triggered the run
     input |-> input,        \* the value of the manual price input
     before |-> [carbon_price |-> carbon_price,    \* the price state it found
                 manual_override_price |-> manual_override_price,
                 selected_historic_date |-> selected_historic_date],
     warnings |-> 0,         \* st.warning calls
     errors |-> <<>>,        \* st.error calls, in order
     writes |-> 0,           \* write_price_to_stage calls
     put |-> None,           \* the price file put on the @Documents stage
     searches |-> 0,         \* calls of the document search service
     attempts |-> 0,         \* calls of complete()
     caption |-> None,       \* the source citation shown
     calc |-> FALSE]         \* a calculation answer was shown

\* no turn is running and none has run in this script run
NoTurn ==
    [question |-> <<>>, base |-> 0, path |-> "none", prompt |-> None,
     src |-> None, retries |-> 0, attempt |-> 0, answer |-> None]

\* the llm_complete calls: the last one that returned (whether it succeeded,
\* and when it issued its last request), and of the running one the time of
\* the request in flight and last_request_time on entry
NoCalls == [prev |-> None, req |-> 0, before |-> 0]

\* write_price_to_stage in a run: the file is put on the stage, or the put fails
\* and the error is shown
write_price_to_stage(run, price, is_manual, ok) ==
    IF ok
    THEN [run EXCEPT !.writes = @ + 1,
                     !.put = Some([price |-> price,
                                   source |-> IF is_manual THEN "Manual override"
                                              ELSE "Default market price"])]
    ELSE [run EXCEPT !.writes = @ + 1, !.errors = Append(@, "write")]

\* init_session_state, first run included: the default price file is written.
\* is_manual_price and initialized are set here and never read again by the
\* operations below; time.time() is far past MIN_REQUEST_INTERVAL.
Init ==
    /\ messages = <<>>
    /\ last_request_time = 0
    /\ carbon_price = DEFAULT_CARBON_PRICE
    /\ selected_historic_date = None
    /\ manual_override_price = None
    /\ clock = StartTime
    /\ pc = "idle"
    /\ turn = NoTurn
    /\ \E ok \in BOOLEAN :
         ui = write_price_to_stage(NewRun("load", 0), DEFAULT_CARBON_PRICE, FALSE, ok)
    /\ calls = NoCalls
    /\ cc = None

\* the values the manual price input can hold
ManualInputs ==
    {p \in {0, 50, DEFAULT_CARBON_PRICE} : MinPriceInput <= p /\ p <= MaxPriceInput}

-----------------------------------------------------------------------------
\* Price controls of render_config_ui.

\* faulty Reset button: the selections are cleared but the price is kept
Reset_KeepsPrice ==
    /\ pc = "idle"
    /\ manual_override_price # None \/ selected_historic_date # None
    /\ \E ok \in BOOLEAN :
         ui' = write_price_to_stage(NewRun("reset", 0), DEFAULT_CARBON_PRICE, FALSE, ok)
    /\ manual_override_price' = None
    /\ selected_historic_date' = None
    /\ turn' = NoTurn
    /\ UNCHANGED <<messages, last_request_time, carbon_price, clock, pc, calls, cc>>

\* the Reset button
Reset ==
    /\ pc = "idle"
    /\ manual_override_price # None \/ selected_historic_date # None
    /\ \E ok \in BOOLEAN :
         ui' = write_price_to_stage(NewRun("reset", 0), DEFAULT_CARBON_PRICE, FALSE, ok)
    /\ carbon_price' = DEFAULT_CARBON_PRICE
    /\ manual_override_price' = None
    /\ selected_historic_date' = None
    /\ turn' = NoTurn
    /\ UNCHANGED <<messages, last_request_time, clock, pc, calls, cc>>

\* faulty historic price button: the manual override is left in place
HistoricSelect_KeepsManual(date) ==
    /\ pc = "idle"
    /\ \E ok \in BOOLEAN :
         ui' = write_price_to_stage(NewRun("historic", 0), RECENT_PRICES[date], FALSE, ok)
    /\ carbon_price' = RECENT_PRICES[date]
    /\ selected_historic_date' = Some(date)
    /\ turn' = NoTurn
    /\ UNCHANGED <<messages, last_request_time, manual_override_price, clock, pc,
                   calls, cc>>

\* a historic price button
HistoricSelect(date) ==
    /\ pc = "idle"
    /\ \E ok \in BOOLEAN :
         ui' = write_price_to_stage(NewRun("historic", 0), RECENT_PRICES[date], FALSE, ok)
    /\ carbon_price' = RECENT_PRICES[date]
    /\ selected_historic_date' = Some(date)
    /\ manual_override_price' = None
    /\ turn' = NoTurn
    /\ UNCHANGED <<messages, last_request_time, clock, pc, calls, cc>>

\* faulty Update Price button: a price of 0 is accepted
ManualUpdate_AcceptsZero(new_price) ==
    /\ pc = "idle"
    /\ selected_historic_date = None
    /\ IF new_price >= 0
       THEN /\ carbon_price' = new_price
            /\ manual_override_price' = Some(new_price)
            /\ selected_historic_date' = None
            /\ \E ok \in BOOLEAN :
                 ui' = write_price_to_stage(NewRun("update", new_price), new_price, TRUE, ok)
       ELSE /\ ui' = [NewRun("update", new_price) EXCEPT !.warnings = @ + 1]
            /\ UNCHANGED <<carbon_price, manual_override_price,
                           selected_historic_date>>
    /\ turn' = NoTurn
    /\ UNCHANGED <<messages, last_request_time, clock, pc, calls, cc>>

\* the Update Price button, disabled while a historic date is selected
ManualUpdate(new_price) ==
    /\ pc = "idle"
    /\ selected_historic_date = None
    /\ IF new_price > 0
       THEN /\ carbon_price' = new_price
            /\ manual_override_price' = Some(new_price)
            /\ selected_historic_date' = None
            /\ \E ok \in BOOLEAN :
                 ui' = write_price_to_stage(NewRun("update", new_price), new_price, TRUE, ok)
       ELSE /\ ui' = [NewRun("update", new_price) EXCEPT !.warnings = @ + 1]
            /\ UNCHANGED <<carbon_price, manual_override_price,
                           selected_historic_date>>
    /\ turn' = NoTurn
    /\ UNCHANGED <<messages, last_request_time, clock, pc, calls, cc>>

\* the Clear Chat button
ClearChat ==
    /\ pc = "idle"
    /\ messages' = <<>>
    /\ ui' = NewRun("clear", 0)
    /\ turn' = NoTurn
    /\ UNCHANGED <<last_request_time, carbon_price, selected_historic_date,
                   manual_override_price, clock, pc, calls, cc>>

\* time passes while the script waits for the user
Tick ==
    /\ pc = "idle"
    /\ clock < MaxTime
    /\ clock' = clock + 1
    /\ UNCHANGED <<messages, last_request_time, carbon_price, selected_historic_date,
                   manual_override_price, pc, turn, ui, calls, cc>>

-----------------------------------------------------------------------------
\* A turn of main(): lines 347-386.

\* faulty turn: main() returns from the calculator branch even when no emission
\* factor was found
Ask_ReturnsWithoutFactor(question) ==
    /\ pc = "idle"
    /\ clock <= MaxTime
    /\ Len(messages) + 2 <= MaxMsgs
    /\ LET stored == Append(messages, Message("user", question))
           req == extract_cbam_request(question)
       IN  IF HasProductAndQuantity(req)
           THEN /\ IF EmissionFor(req) # None
                   THEN /\ messages' = Append(stored,
                               Message("assistant", CalcResponse(req, carbon_price)))
                        /\ ui' = [NewRun("ask", 0) EXCEPT !.calc = TRUE]
                   ELSE /\ messages' = stored
                        /\ ui' = NewRun("ask", 0)
                /\ turn' = [NoTurn EXCEPT !.question = question,
                                          !.base = Len(messages),
                                          !.path = "fast"]
                /\ UNCHANGED <<pc, clock>>
           ELSE \E outcome \in SearchOutcomes, lag \in 0..MaxLag :
                  LET built == build_prompt(question, stored, carbon_price, outcome)
                  IN  /\ messages' = stored
                      /\ ui' = [NewRun("ask", 0) EXCEPT
                                  !.searches = @ + 1,
                                  !.errors = IF outcome = "raises"
                                             THEN Append(@, "search") ELSE @]
                      /\ turn' = [NoTurn EXCEPT !.question = question,
                                                !.base = Len(messages),
                                                !.path = "slow",
                                                !.prompt = Some(built[1]),
                                                !.src = Some(built[2]),
                                                !.retries = DefaultRetries]
                      /\ clock' = clock + lag
                      /\ pc' = "llm_complete"
    /\ UNCHANGED <<last_request_time, carbon_price, selected_historic_date,
                   manual_override_price, calls, cc>>

\* the question is stored, classified, and answered by the calculator, or the
\* prompt is built (retrieval included) and llm_complete is about to be called
AskWithin(question, maxMsgs, maxTime) ==
    /\ pc = "idle"
    /\ clock <= maxTime
    /\ Len(messages) + 2 <= maxMsgs
    /\ LET stored == Append(messages, Message("user", question))
           req == extract_cbam_request(question)
       IN  IF TakesFastPath(req)
           THEN /\ messages' = Append(stored,
                       Message("assistant", CalcResponse(req, carbon_price)))
                /\ ui' = [NewRun("ask", 0) EXCEPT !.calc = TRUE]
                /\ turn' = [NoTurn EXCEPT !.question = question,
                                          !.base = Len(messages),
                                          !.path = "fast"]
                /\ UNCHANGED <<pc, clock>>
           ELSE \E outcome \in SearchOutcomes, lag \in 0..MaxLag :
                  LET built == build_prompt(question, stored, carbon_price, outcome)
                  IN  /\ messages' = stored
                      /\ ui' = [NewRun("ask", 0) EXCEPT
                                  !.searches = @ + 1,
                                  !.errors = IF outcome = "raises"
                                             THEN Append(@, "search") ELSE @]
                      /\ turn' = [NoTurn EXCEPT !.question = question,
                                                !.base = Len(messages),
                                                !.path = "slow",
                                                !.prompt = Some(built[1]),
                                                !.src = Some(built[2]),
                                                !.retries = DefaultRetries]
                      /\ clock' = clock + lag
                      /\ pc' = "llm_complete"
    /\ UNCHANGED <<last_request_time, carbon_price, selected_historic_date,
                   manual_override_price, calls, cc>>

\* faulty throttle: the call never waits
LlmEnter_NoWait ==
    /\ pc = "llm_complete"
    /\ clock' = clock
    /\ turn' = [turn EXCEPT !.attempt = 0]
    /\ calls' = [calls EXCEPT !.before = last_request_time]
    /\ pc' = "attempt"
    /\ UNCHANGED <<messages, last_request_time, carbon_price, selected_historic_date,
                   manual_override_price, ui, cc>>

\* a turn within the bounds of the session
Ask(question) == AskWithin(question, MaxMsgs, MaxTime)

\* llm_complete, lines 316-319: the throttle
LlmEnter ==
    /\ pc = "llm_complete"
    /\ LET now == clock
           elapsed == now - last_request_time
       IN  IF elapsed < MIN_REQUEST_INTERVAL
           THEN \E lag \in 0..MaxLag :
                  clock' = clock + (MIN_REQUEST_INTERVAL - elapsed) + lag
           ELSE clock' = clock
    /\ turn' = [turn EXCEPT !.attempt = 0]
    /\ calls' = [calls EXCEPT !.before = last_request_time]
    /\ pc' = "attempt"
    /\ UNCHANGED <<messages, last_request_time, carbon_price, selected_historic_date,
                   manual_override_price, ui, cc>>

\* llm_complete, lines 321-323: complete(model, prompt) is called
AttemptIssue ==
    /\ pc = "attempt"
    /\ turn.attempt < turn.retries
    /\ ui' = [ui EXCEPT !.attempts = @ + 1]
    /\ calls' = [calls EXCEPT !.req = clock]
    /\ pc' = "request"
    /\ UNCHANGED <<messages, last_request_time, carbon_price, selected_historic_date,
                   manual_override_price, clock, turn, cc>>

\* llm_complete, lines 323-325: complete() returns a response
AttemptSucceeds(resp) ==
    /\ pc = "request"
    /\ \E lag \in 0..MaxLag :
         /\ clock' = clock + lag
         /\ last_request_time' = clock + lag
    /\ turn' = [turn EXCEPT !.answer = Some(resp)]
    /\ calls' = [calls EXCEPT !.prev = Some([ok |-> TRUE, req |-> calls.req])]
    /\ pc' = "returned"
    /\ UNCHANGED <<messages, carbon_price, selected_historic_date,
                   manual_override_price, ui, cc>>

\* faulty failure handling: the error is reported after every failed attempt
AttemptFails_ReportsEach ==
    /\ pc = "request"
    /\ IF turn.attempt < turn.retries - 1
       THEN /\ \E lag \in 0..MaxLag :
                 clock' = clock + RETRY_DELAY * (turn.attempt + 1) + lag
            /\ turn' = [turn EXCEPT !.attempt = @ + 1]
            /\ ui' = [ui EXCEPT !.errors = Append(@, "llm")]
            /\ pc' = "attempt"
            /\ UNCHANGED calls
       ELSE /\ \E lag \in 0..MaxLag : clock' = clock + lag
            /\ turn' = [turn EXCEPT !.answer = None]
            /\ ui' = [ui EXCEPT !.errors = Append(@, "llm")]
            /\ calls' = [calls EXCEPT !.prev = Some([ok |-> FALSE, req |-> calls.req])]
            /\ pc' = "returned"
    /\ UNCHANGED <<messages, last_request_time, carbon_price, selected_historic_date,
                   manual_override_price, cc>>

\* faulty failure handling: last_request_time is set on a failed attempt too
AttemptFails_StampsTime ==
    /\ pc = "request"
    /\ IF turn.attempt < turn.retries - 1
       THEN /\ \E lag \in 0..MaxLag :
                 clock' = clock + RETRY_DELAY * (turn.attempt + 1) + lag
            /\ turn' = [turn EXCEPT !.attempt = @ + 1]
            /\ pc' = "attempt"
            /\ UNCHANGED <<ui, calls>>
       ELSE /\ \E lag \in 0..MaxLag : clock' = clock + lag
            /\ turn' = [turn EXCEPT !.answer = None]
            /\ ui' = [ui EXCEPT !.errors = Append(@, "llm")]
            /\ calls' = [calls EXCEPT !.prev = Some([ok |-> FALSE, req |-> calls.req])]
            /\ pc' = "returned"
    /\ last_request_time' = clock
    /\ UNCHANGED <<messages, carbon_price, selected_historic_date,
                   manual_override_price, cc>>

\* llm_complete, lines 326-331: complete() raises
AttemptFails ==
    /\ pc = "request"
    /\ IF turn.attempt < turn.retries - 1
       THEN /\ \E lag \in 0..MaxLag :
                 clock' = clock + RETRY_DELAY * (turn.attempt + 1) + lag
            /\ turn' = [turn EXCEPT !.attempt = @ + 1]
            /\ pc' = "attempt"
            /\ UNCHANGED <<ui, calls>>
       ELSE /\ \E lag \in 0..MaxLag : clock' = clock + lag
            /\ turn' = [turn EXCEPT !.answer = None]
            /\ ui' = [ui EXCEPT !.errors = Append(@, "llm")]
            /\ calls' = [calls EXCEPT !.prev = Some([ok |-> FALSE, req |-> calls.req])]
            /\ pc' = "returned"
    /\ UNCHANGED <<messages, last_request_time, carbon_price, selected_historic_date,
                   manual_override_price, cc>>

\* main(), lines 383-386: if answer: show it, cite the source, store it
TurnEnd ==
    /\ pc = "returned"
    /\ IF TruthyText(turn.answer)
       THEN /\ ui' = [ui EXCEPT !.caption = turn.src]
            /\ messages' = Append(messages, Message("assistant", turn.answer[1]))
       ELSE UNCHANGED <<ui, messages>>
    /\ pc' = "idle"
    /\ UNCHANGED <<last_request_time, carbon_price, selected_historic_date,
                   manual_override_price, clock, turn, calls, cc>>

-----------------------------------------------------------------------------
\* The session.

\* calculate_cbam_cost applied to explicit arguments, in either variant
CostCall(variant, embedded_emissions, origin_price, eu_price) ==
    /\ pc = "idle"
    /\ cc' = Some([variant |-> variant,
                   embedded_emissions |-> embedded_emissions,
                   origin_price |-> origin_price,
                   eu_price |-> eu_price,
                   session_price |-> carbon_price,
                   result |-> IF variant = "v1"
                              THEN calculate_cbam_cost_v1(embedded_emissions,
                                       origin_price, eu_price, carbon_price)
                              ELSE calculate_cbam_cost(embedded_emissions,
                                       origin_price, eu_price, carbon_price)])
    /\ UNCHANGED <<messages, last_request_time, carbon_price, selected_historic_date,
                   manual_override_price, clock, pc, turn, ui, calls>>

PriceNext ==
    \/ Reset
    \/ \E date \in DOMAIN RECENT_PRICES : HistoricSelect(date)
    \/ \E new_price \in ManualInputs : ManualUpdate(new_price)

Next ==
    \/ PriceNext
    \/ ClearChat
    \/ Tick
    \/ \E question \in Questions : Ask(question)
    \/ LlmEnter
    \/ AttemptIssue
    \/ \E resp \in Responses : AttemptSucceeds(resp)
    \/ AttemptFails
    \/ TurnEnd

Spec == Init /\ [][Next]_vars

\* The cost function under every price the controls can set.
CostNext ==
    \/ PriceNext
    \/ \E variant \in {"v1", "v2"}, embedded_emissions \in 0..MaxArg,
          origin_price \in 0..MaxArg,
          eu_price \in {None} \cup {Some(p) : p \in 0..MaxArg} :
            CostCall(variant, embedded_emissions, origin_price, eu_price)

SpecCost == Init /\ [][CostNext]_vars

\* Long conversations: questions only, one after the other, until the
\* conversation is MaxHistMsgs long.  No turn is held back by the time: each
\* turn takes at most TurnTime and adds a message.  External calls return at
\* once and sleeps end on time.
HistoryQuestions == {<<"100", "tons", "of", "Steel">>, <<"what", "is", "cbam">>}

TurnTime == MIN_REQUEST_INTERVAL + RETRY_DELAY

OnTime ==
    \/ clock' = clock
    \/ pc = "llm_complete" /\ clock' = last_request_time + MIN_REQUEST_INTERVAL
    \/ pc = "request" /\ clock' = clock + RETRY_DELAY * (turn.attempt + 1)

HistoryNext ==
    \/ \E question \in HistoryQuestions :
          /\ AskWithin(question, MaxHistMsgs, StartTime + MaxHistMsgs * TurnTime)
          /\ OnTime
    \/ LlmEnter /\ OnTime
    \/ AttemptIssue
    \/ \E resp \in Responses : AttemptSucceeds(resp) /\ OnTime
    \/ AttemptFails /\ OnTime
    \/ TurnEnd

SpecHistory == Init /\ [][HistoryNext]_vars

-----------------------------------------------------------------------------
\* Claims.

\* a turn of main() has run to its end and is the last thing that happened
TurnDone == pc = "idle" /\ turn.path # "none"

\* st.error calls of one kind in the current interaction
ErrorCount(kind) == Cardinality({i \in DOMAIN ui.errors : ui.errors[i] = kind})

\* C1 as claimed: a question takes the fast path if and only if a product and
\* a quantity (any integer >= 0, zero included) are extracted and either
\* emissions are declared or the product is a key of DEFAULT_EMISSIONS.
C1_FastPathIff ==
    turn.path # "none" =>
        LET req == extract_cbam_request(turn.question)
        IN  (turn.path = "fast") <=>
              /\ req.product # None
              /\ req.quantity # None /\ req.quantity[1] >= 0
              /\ \/ req.emissions # None
                 \/ req.product[1] \in DOMAIN DEFAULT_EMISSIONS

\* C2 as claimed: with an explicit EU price >= 0 (zero included) the result of
\* calculate_cbam_cost is max(0, emissions * (euPrice - originPrice)), never
\* negative, and 0 whenever euPrice <= originPrice, whatever the session price.
C2_CostFormula ==
    (cc # None /\ cc[1].eu_price # None) =>
        LET c == cc[1]
            eu == c.eu_price[1]
        IN  /\ c.result >= 0
            /\ c.result = Max(0, c.embedded_emissions * (eu - c.origin_price))
            /\ (eu <= c.origin_price => c.result = 0)

\* C3: a manual override and a historic date are never both set; a historic
\* selection leaves no manual override, an accepted manual update leaves no
\* historic date, and Update Price is not enabled while a date is selected.
C3_MutualExclusion ==
    /\ ~(manual_override_price # None /\ selected_historic_date # None)
    /\ ui.event = "historic" =>
         (selected_historic_date # None /\ manual_override_price = None)
    /\ (ui.event = "update" /\ ui.input > 0) =>
         (manual_override_price = Some(ui.input) /\ selected_historic_date = None)
    /\ selected_historic_date # None =>
         ~ENABLED (\E new_price \in ManualInputs : ManualUpdate(new_price))

\* C3 witness: a historic date has been selected over an active manual override.
C3_Witness ==
    /\ ui.event = "historic"
    /\ ui.before.manual_override_price # None
    /\ selected_historic_date # None

\* C4: an Update Price click with a price <= 0 shows one warning, writes no
\* price file and leaves carbon_price, manual_override_price and
\* selected_historic_date as they were.
C4_RejectedUpdate ==
    (ui.event = "update" /\ ui.input <= 0) =>
        /\ ui.warnings = 1
        /\ ui.writes = 0 /\ ui.put = None
        /\ carbon_price = ui.before.carbon_price
        /\ manual_override_price = ui.before.manual_override_price
        /\ selected_historic_date = ui.before.selected_historic_date

\* C4 witness: a price of 0 was rejected while a manual override was active.
C4_Witness ==
    /\ ui.event = "update" /\ ui.input = 0
    /\ ui.warnings = 1
    /\ manual_override_price # None

\* C5: a call of llm_complete with retries = 2 whose attempts all fail makes
\* exactly two attempts, returns None, and reports the error exactly once,
\* after the last attempt and not after the first.
C5_TwoFailures ==
    /\ (pc \in {"attempt", "request"}) => ErrorCount("llm") = 0
    /\ (turn.path = "slow" /\ turn.retries = 2 /\ pc \in {"returned", "idle"}
          /\ turn.answer = None) =>
         (ui.attempts = 2 /\ turn.attempt = 1 /\ ErrorCount("llm") = 1)
    /\ (pc \in {"returned", "idle"} /\ turn.answer # None) => ErrorCount("llm") = 0

\* C5 witness: llm_complete has returned None after two failed attempts.
C5_Witness ==
    /\ pc = "returned" /\ turn.answer = None
    /\ ui.attempts = 2 /\ ErrorCount("llm") = 1

\* C6: when the previous llm_complete call succeeded, the first request of the
\* next call is issued at least MIN_REQUEST_INTERVAL after the request of the
\* previous call.
C6_Throttle ==
    (pc = "request" /\ turn.attempt = 0 /\ calls.prev # None /\ calls.prev[1].ok) =>
        calls.req >= calls.prev[1].req + MIN_REQUEST_INTERVAL

\* C6 witness: the throttle held a call back to exactly the interval.
C6_Witness ==
    /\ pc = "request" /\ turn.attempt = 0
    /\ calls.prev # None /\ calls.prev[1].ok
    /\ calls.req = calls.prev[1].req + MIN_REQUEST_INTERVAL

C8_AnswerStored ==
    (TurnDone /\ turn.path = "slow") =>
        LET asked == Message("user", turn.question)
        IN  IF turn.answer # None
            THEN /\ Len(messages) = turn.base + 2
                 /\ messages[turn.base + 1] = asked
                 /\ messages[turn.base + 2] = Message("assistant", turn.answer[1])
                 /\ ui.caption = turn.src
            ELSE /\ Len(messages) = turn.base + 1
                 /\ messages[turn.base + 1] = asked
                 /\ ui.caption = None
                 /\ ErrorCount("llm") = 1

\* C9: when the search call raises, cortex_search returns the empty context and
\* the source "Error", the prompt is built, and llm_complete is invoked.
C9_SearchFailure ==
    ErrorCount("search") > 0 =>
        /\ turn.path = "slow"
        /\ turn.src = Some("Error")
        /\ turn.prompt # None /\ turn.prompt[1].context = <<>>
        /\ turn.prompt[1].question = turn.question
        /\ pc \in {"llm_complete", "attempt", "request", "returned", "idle"}
        /\ pc \in {"request", "returned", "idle"} => ui.attempts >= 1

\* C9 witness: a turn whose search raised has gone on to a completion attempt.
C9_Witness ==
    /\ ErrorCount("search") = 1
    /\ TurnDone /\ ui.attempts >= 1

\* C10: last_request_time keeps its value through failed attempts: during a
\* call before any success, and after a call whose attempts all failed, it is
\* what it was when the call began.
C10_FailuresKeepTime ==
    (\/ pc \in {"attempt", "request"}
     \/ (turn.path = "slow" /\ pc \in {"returned", "idle"} /\ turn.answer = None)) =>
        last_request_time = calls.before

\* C10 witness: a call failed on every attempt after an earlier call succeeded.
C10_Witness ==
    /\ pc = "returned" /\ turn.answer = None
    /\ calls.before > 0
    /\ last_request_time = calls.before

\* C12: carbon_price is strictly positive and is the price of the active
\* source: the manual override when one is set, the price of the selected
\* historic date when one is selected, DEFAULT_CARBON_PRICE when neither is.
C12_PriceOfActiveSource ==
    /\ carbon_price > 0
    /\ manual_override_price # None => carbon_price = manual_override_price[1]
    /\ selected_historic_date # None =>
         carbon_price = RECENT_PRICES[selected_historic_date[1]]
    /\ (manual_override_price = None /\ selected_historic_date = None) =>
         carbon_price = DEFAULT_CARBON_PRICE

\* C12 witness: Reset has brought a price that differed from the default back
\* to the default.
C12_Witness ==
    /\ ui.event = "reset"
    /\ ui.before.carbon_price # DEFAULT_CARBON_PRICE
    /\ carbon_price = DEFAULT_CARBON_PRICE
    /\ manual_override_price = None /\ selected_historic_date = None

\* C11: the chat history in the prompt of a slow turn is the up-to-3 messages
\* that immediately precede the just-appended user message, in their order and
\* as "{role}: {content}" lines; they lie within the last HISTORY_LENGTH
\* messages, the just-appended message is not among them, and on a first turn
\* there are none.
C11_HistoryWindow ==
    turn.path = "slow" =>
        LET hist == turn.prompt[1].chat_history
            n == IF turn.base < 3 THEN turn.base ELSE 3
            first == turn.base - n + 1
        IN  /\ messages[turn.base + 1] = Message("user", turn.question)
            /\ Len(hist) = n
            /\ \A i \in 1..n :
                 hist[i] = <<messages[first + i - 1].role, ":">>
                             \o messages[first + i - 1].content
            /\ first + n - 1 = turn.base
            /\ n > 0 => first > (turn.base + 1) - HISTORY_LENGTH
            /\ turn.base = 0 => hist = <<>>

\* C11 witness: a slow turn in a conversation longer than HISTORY_LENGTH whose
\* preceding message is a user message that got no reply.
C11_Witness ==
    /\ turn.path = "slow"
    /\ turn.base + 1 > HISTORY_LENGTH
    /\ messages[turn.base].role = "user"
    /\ Len(turn.prompt[1].chat_history) = 3

====
